---- MODULE Spec2Model ----
(***************************************************************************)
(* A model of src/searching/RedBlackBST.py: the left-leaning red-black     *)
(* BST symbol table.  Nodes live in a heap (a function from node           *)
(* references to node records) because the Python code mutates nodes in    *)
(* place: when a call raises, the assignments already made to the nodes    *)
(* stay, and the assignments of the callers (h.left = ..., self.root =     *)
(* ...) never happen.                                                      *)
(***************************************************************************)
EXTENDS Integers, Sequences, FiniteSets, TLC

(* ---- bounds ---- *)
MaxKey == 5
MaxVal == 2
\* the number of nodes the heap has room for
MaxNodes == 5
\* the number of nodes of the tables Spec makes
MaxSize == 4
\* the number of nodes of the tables SpecQuery makes
MaxQuery == 3
\* the ranks select is called with are -1 .. MaxRank
MaxRank == 4
\* the number of nodes of the tables SpecTall makes
MaxTall == 9
\* the number of nodes of the subtrees the helpers are applied to
MaxHelper == 5
\* Heap: the items pushed are 1..MaxItem, a heap holds up to MaxHeap of them
MaxItem == 4
MaxHeap == 4

(* ---- encoding of the Python values ---- *)
\* None (a missing child, a None key, a None value) is 0; keys, values and
\* node references are positive.
None == 0
RED == TRUE
BLACK == FALSE

Keys == 1..MaxKey
Vals == 1..MaxVal
Refs == 1..MaxNodes

NoErr == "none"

\* a heap slot that holds no TreeNode
FreeNode == [key |-> None, val |-> None, left |-> None, right |-> None,
             color |-> BLACK, size |-> 0]

\* TreeNode.__init__(key, val, color, size): left and right start as None
TreeNode(key, val, color, size) ==
    [key |-> key, val |-> val, left |-> None, right |-> None,
     color |-> color, size |-> size]

\* the result of a call: the heap after it, the returned value, the raised error
Ok(hp, r) == [heap |-> hp, ret |-> r, err |-> NoErr]
Raise(hp, e) == [heap |-> hp, ret |-> None, err |-> e]

\* the reference of a newly constructed object: a slot no node occupies
NewRef(hp) ==
    CHOOSE n \in DOMAIN hp : hp[n].key = None /\ \A m \in DOMAIN hp : hp[m].key = None => n <= m

(* ---- color and size primitives ---- *)
isRed(hp, node) == IF node = None THEN FALSE ELSE hp[node].color = RED

_size(hp, node) == IF node = None THEN 0 ELSE hp[node].size

(* ---- sequencing ---- *)
\* "r; K": when the call r raised, the error propagates with the heap as
\* the call left it; otherwise the code goes on with r's result
Then(r, K(_)) == IF r.err # NoErr THEN r ELSE K(r)

\* a.fa = v
FieldSet(hp, a, fa, v) == [hp EXCEPT ![a][fa] = v]
\* a.fa = b.fb
FieldCopy(hp, a, fa, b, fb) == [hp EXCEPT ![a][fa] = hp[b][fb]]
\* h.size = 1 + self._size(h.left) + self._size(h.right)
SizeUpdate(hp, h) ==
    [hp EXCEPT ![h].size = 1 + _size(hp, hp[h].left) + _size(hp, hp[h].right)]
\* n.color = not n.color
Toggle(hp, n) == [hp EXCEPT ![n].color = ~@]

(* ---- helper functions ---- *)
\* the assignments are applied innermost first, in the order of the code
\* rotate_left without the line x.size = h.size
rotate_leftStaleSize(hp, h) ==
    IF h = None \/ ~isRed(hp, hp[h].right) THEN Raise(hp, "AssertionError")
    ELSE LET x == hp[h].right
         IN  Ok(SizeUpdate(
                  FieldSet(
                   FieldCopy(
                    FieldSet(
                     FieldCopy(hp, h, "right", x, "left"),
                     x, "left", h),
                    x, "color", h, "color"),
                   h, "color", RED),
                 h), x)

rotate_left(hp, h) ==
    IF h = None \/ ~isRed(hp, hp[h].right) THEN Raise(hp, "AssertionError")
    ELSE LET x == hp[h].right
         IN  Ok(SizeUpdate(
                 FieldCopy(
                  FieldSet(
                   FieldCopy(
                    FieldSet(
                     FieldCopy(hp, h, "right", x, "left"),
                     x, "left", h),
                    x, "color", h, "color"),
                   h, "color", RED),
                  x, "size", h, "size"),
                 h), x)

rotate_right(hp, h) ==
    IF h = None \/ ~isRed(hp, hp[h].left) THEN Raise(hp, "AssertionError")
    ELSE LET x == hp[h].left
         IN  Ok(SizeUpdate(
                 FieldCopy(
                  FieldSet(
                   FieldCopy(
                    FieldSet(
                     FieldCopy(hp, h, "left", x, "right"),
                     x, "right", h),
                    x, "color", h, "color"),
                   h, "color", RED),
                  x, "size", h, "size"),
                 h), x)

\* three assignments in order; reading the color of a None child raises
\* AttributeError after the earlier assignments have been made
FlipRight(hp, h) ==
    IF hp[h].right = None THEN Raise(hp, "AttributeError")
    ELSE Ok(Toggle(hp, hp[h].right), None)

FlipLeft(hp, h) ==
    IF hp[h].left = None THEN Raise(hp, "AttributeError")
    ELSE FlipRight(Toggle(hp, hp[h].left), h)

flip_colors(hp, h) ==
    IF h = None THEN Raise(hp, "AttributeError")
    ELSE FlipLeft(Toggle(hp, h), h)

move_red_left(hp, h) ==
    Then(flip_colors(hp, h), LAMBDA f1 :
      IF f1.heap[h].right = None THEN Raise(f1.heap, "AttributeError")
      ELSE IF ~isRed(f1.heap, f1.heap[f1.heap[h].right].left) THEN Ok(f1.heap, h)
      ELSE Then(rotate_right(f1.heap, f1.heap[h].right), LAMBDA r1 :
             Then(rotate_left(FieldSet(r1.heap, h, "right", r1.ret), h), LAMBDA r2 :
               Then(flip_colors(r2.heap, r2.ret), LAMBDA f2 :
                 Ok(f2.heap, r2.ret)))))

move_red_right(hp, h) ==
    Then(flip_colors(hp, h), LAMBDA f1 :
      IF f1.heap[h].left = None THEN Raise(f1.heap, "AttributeError")
      ELSE IF ~isRed(f1.heap, f1.heap[f1.heap[h].left].left) THEN Ok(f1.heap, h)
      ELSE Then(rotate_right(f1.heap, h), LAMBDA r1 :
             Then(flip_colors(r1.heap, r1.ret), LAMBDA f2 :
               Ok(f2.heap, r1.ret))))

\* restore the red-black invariants at h and recompute its size
balance(hp, h) ==
    IF h = None THEN Raise(hp, "AttributeError")
    ELSE
    Then(IF isRed(hp, hp[h].right) /\ ~isRed(hp, hp[h].left)
         THEN rotate_left(hp, h) ELSE Ok(hp, h), LAMBDA s1 :
      Then(IF isRed(s1.heap, s1.heap[s1.ret].left)
              /\ isRed(s1.heap, s1.heap[s1.heap[s1.ret].left].left)
           THEN rotate_right(s1.heap, s1.ret) ELSE Ok(s1.heap, s1.ret), LAMBDA s2 :
        Then(IF isRed(s2.heap, s2.heap[s2.ret].left) /\ isRed(s2.heap, s2.heap[s2.ret].right)
             THEN flip_colors(s2.heap, s2.ret) ELSE Ok(s2.heap, None), LAMBDA s3 :
          Ok(SizeUpdate(s3.heap, s2.ret), s2.ret))))

(* ---- search ---- *)
RECURSIVE _get(_, _, _)
_get(hp, node, key) ==
    IF key = None THEN Raise(hp, "ValueError")
    ELSE IF node = None THEN Ok(hp, None)
    ELSE IF key < hp[node].key THEN _get(hp, hp[node].left, key)
    ELSE IF key > hp[node].key THEN _get(hp, hp[node].right, key)
    ELSE Ok(hp, hp[node].val)

(* ---- insertion ---- *)
RECURSIVE _put(_, _, _, _)
_put(hp, node, key, val) ==
    IF node = None
    THEN Ok([hp EXCEPT ![NewRef(hp)] = TreeNode(key, val, RED, 1)], NewRef(hp))
    ELSE
    Then(IF key < hp[node].key
         THEN Then(_put(hp, hp[node].left, key, val), LAMBDA r :
                Ok(FieldSet(r.heap, node, "left", r.ret), node))
         ELSE IF key > hp[node].key
         THEN Then(_put(hp, hp[node].right, key, val), LAMBDA r :
                Ok(FieldSet(r.heap, node, "right", r.ret), node))
         ELSE Ok(FieldSet(hp, node, "val", val), node), LAMBDA s0 :
      Then(IF isRed(s0.heap, s0.heap[node].right) /\ ~isRed(s0.heap, s0.heap[node].left)
           THEN rotate_left(s0.heap, node) ELSE Ok(s0.heap, node), LAMBDA s1 :
        Then(IF isRed(s1.heap, s1.heap[s1.ret].left)
                /\ isRed(s1.heap, s1.heap[s1.heap[s1.ret].left].left)
             THEN rotate_right(s1.heap, s1.ret) ELSE Ok(s1.heap, s1.ret), LAMBDA s2 :
          Then(IF isRed(s2.heap, s2.heap[s2.ret].left) /\ isRed(s2.heap, s2.heap[s2.ret].right)
               THEN flip_colors(s2.heap, s2.ret) ELSE Ok(s2.heap, None), LAMBDA s3 :
            Ok(SizeUpdate(s3.heap, s2.ret), s2.ret)))))

(* ---- minimum ---- *)
RECURSIVE _minKey(_, _)
_minKey(hp, node) ==
    IF node = None THEN Raise(hp, "AttributeError")
    ELSE IF hp[node].left = None THEN Ok(hp, node)
    ELSE _minKey(hp, hp[node].left)

(* ---- deletion ---- *)
RECURSIVE _deleteMin(_, _)
_deleteMin(hp, h) ==
    IF h = None THEN Raise(hp, "AttributeError")
    ELSE IF hp[h].left = None THEN Ok(hp, None)
    ELSE
    Then(IF ~isRed(hp, hp[h].left) /\ ~isRed(hp, hp[hp[h].left].left)
         THEN move_red_left(hp, h) ELSE Ok(hp, h), LAMBDA s1 :
      Then(_deleteMin(s1.heap, s1.heap[s1.ret].left), LAMBDA r :
        balance(FieldSet(r.heap, s1.ret, "left", r.ret), s1.ret)))

RECURSIVE _deleteMax(_, _)
_deleteMax(hp, h) ==
    IF h = None THEN Raise(hp, "AttributeError")
    ELSE
    Then(IF isRed(hp, hp[h].left) THEN rotate_left(hp, h) ELSE Ok(hp, h), LAMBDA s1 :
      IF s1.heap[s1.ret].right = None THEN Ok(s1.heap, None)
      ELSE
      Then(IF ~isRed(s1.heap, s1.heap[s1.ret].right)
              /\ ~isRed(s1.heap, s1.heap[s1.heap[s1.ret].right].left)
           THEN move_red_right(s1.heap, s1.ret) ELSE Ok(s1.heap, s1.ret), LAMBDA s2 :
        Then(_deleteMax(s2.heap, s2.heap[s2.ret].right), LAMBDA r :
          balance(FieldSet(r.heap, s2.ret, "right", r.ret), s2.ret))))

\* the branch of _delete for key == h.key with a right subtree: the
\* successor's key and value are copied into h and the successor is removed
DeleteHere(hp, h) ==
    Then(_minKey(hp, hp[h].right), LAMBDA m :
      Then(_deleteMin(FieldCopy(FieldCopy(hp, h, "key", m.ret, "key"),
                                h, "val", m.ret, "val"),
                      hp[h].right), LAMBDA r :
        Ok(FieldSet(r.heap, h, "right", r.ret), h)))

RECURSIVE _delete(_, _, _)
_delete(hp, h, key) ==
    IF h = None THEN Raise(hp, "AttributeError")
    ELSE IF key < hp[h].key
    THEN IF hp[h].left = None THEN Raise(hp, "AttributeError")
         ELSE
         Then(IF ~isRed(hp, hp[h].left) /\ ~isRed(hp, hp[hp[h].left].left)
              THEN move_red_left(hp, h) ELSE Ok(hp, h), LAMBDA s1 :
           Then(_delete(s1.heap, s1.heap[s1.ret].left, key), LAMBDA r :
             balance(FieldSet(r.heap, s1.ret, "left", r.ret), s1.ret)))
    ELSE
    Then(IF isRed(hp, hp[h].left) THEN rotate_right(hp, h) ELSE Ok(hp, h), LAMBDA s1 :
      IF key = s1.heap[s1.ret].key /\ s1.heap[s1.ret].right = None THEN Ok(s1.heap, None)
      ELSE IF s1.heap[s1.ret].right = None THEN Raise(s1.heap, "AttributeError")
      ELSE
      Then(IF ~isRed(s1.heap, s1.heap[s1.ret].right)
              /\ ~isRed(s1.heap, s1.heap[s1.heap[s1.ret].right].left)
           THEN move_red_right(s1.heap, s1.ret) ELSE Ok(s1.heap, s1.ret), LAMBDA s2 :
        Then(IF key = s2.heap[s2.ret].key
             THEN DeleteHere(s2.heap, s2.ret)
             ELSE Then(_delete(s2.heap, s2.heap[s2.ret].right, key), LAMBDA r :
                    Ok(FieldSet(r.heap, s2.ret, "right", r.ret), s2.ret)), LAMBDA s3 :
          balance(s3.heap, s3.ret))))

(* ---- the public mutating methods: heap and self.root after the call ---- *)
Returned(hp, rt) == [heap |-> hp, root |-> rt, err |-> NoErr]
Raised(hp, rt, e) == [heap |-> hp, root |-> rt, err |-> e]

\* "if both children of root are black, set root to red"
RootRed(hp, rt) ==
    IF ~isRed(hp, hp[rt].left) /\ ~isRed(hp, hp[rt].right)
    THEN FieldSet(hp, rt, "color", RED) ELSE hp

\* self.root = <the helper's result>; "if not self.is_empty():
\* self.root.color = BLACK".  When the helper raised, self.root is not assigned.
RootBlack(r, rt) ==
    IF r.err # NoErr THEN Raised(r.heap, rt, r.err)
    ELSE IF r.ret # None THEN Returned(FieldSet(r.heap, r.ret, "color", BLACK), r.ret)
    ELSE Returned(r.heap, r.ret)

\* delete without the check for a None key
deleteUnchecked(hp, rt, key) ==
    IF rt = None THEN Raised(hp, rt, "AttributeError")
    ELSE RootBlack(_delete(RootRed(hp, rt), rt, key), rt)

delete(hp, rt, key) ==
    IF key = None THEN Raised(hp, rt, "ValueError")
    ELSE IF rt = None THEN Raised(hp, rt, "AttributeError")
    ELSE RootBlack(_delete(RootRed(hp, rt), rt, key), rt)

\* self.root = self._put(...); self.root.color = BLACK
PutRoot(r, rt) ==
    IF r.err # NoErr THEN Raised(r.heap, rt, r.err)
    ELSE Returned(FieldSet(r.heap, r.ret, "color", BLACK), r.ret)

put(hp, rt, key, val) ==
    IF key = None THEN Raised(hp, rt, "ValueError")
    ELSE IF val = None THEN delete(hp, rt, key)
    ELSE PutRoot(_put(hp, rt, key, val), rt)

deleteMin(hp, rt) ==
    IF rt = None THEN Raised(hp, rt, "IndexError")
    ELSE RootBlack(_deleteMin(RootRed(hp, rt), rt), rt)

deleteMax(hp, rt) ==
    IF rt = None THEN Raised(hp, rt, "IndexError")
    ELSE RootBlack(_deleteMax(RootRed(hp, rt), rt), rt)

(* ---- queries ---- *)
\* size(): self._size(self.root)
size(hp, rt) == _size(hp, rt)

\* is_empty(): self.root is None
is_empty(rt) == rt = None

\* a get that also clears the value it returns
getClearing(hp, rt, key) ==
    Then(_get(hp, rt, key), LAMBDA g :
      Ok([n \in DOMAIN hp |-> IF hp[n].key = key THEN [hp[n] EXCEPT !.val = None] ELSE hp[n]],
         g.ret))

\* get(key): self._get(self.root, key)
get(hp, rt, key) == _get(hp, rt, key)

\* contains(key): self.get(key) != None
contains(hp, rt, key) ==
    IF key = None THEN Raise(hp, "ValueError")
    ELSE Then(get(hp, rt, key), LAMBDA g : Ok(hp, g.ret # None))

RECURSIVE _maxKey(_, _)
_maxKey(hp, node) ==
    IF node = None THEN Raise(hp, "AttributeError")
    ELSE IF hp[node].right = None THEN Ok(hp, node)
    ELSE _maxKey(hp, hp[node].right)

\* minKey without the check for an empty table
minKeyUnchecked(hp, rt) == Then(_minKey(hp, rt), LAMBDA m : Ok(hp, hp[m.ret].key))

minKey(hp, rt) ==
    IF is_empty(rt) THEN Raise(hp, "IndexError")
    ELSE Then(_minKey(hp, rt), LAMBDA m : Ok(hp, hp[m.ret].key))

maxKey(hp, rt) ==
    IF is_empty(rt) THEN Raise(hp, "IndexError")
    ELSE Then(_maxKey(hp, rt), LAMBDA m : Ok(hp, hp[m.ret].key))

\* _floor and _ceil return a node or None
RECURSIVE _floor(_, _, _)
_floor(hp, node, key) ==
    IF node = None THEN None
    ELSE IF key = hp[node].key THEN node
    ELSE IF key < hp[node].key THEN _floor(hp, hp[node].left, key)
    ELSE IF _floor(hp, hp[node].right, key) = None THEN None
    ELSE node

floor(hp, rt, key) ==
    IF key = None THEN Raise(hp, "ValueError")
    ELSE IF is_empty(rt) THEN Raise(hp, "IndexError")
    ELSE IF _floor(hp, rt, key) = None THEN Raise(hp, "IndexError")
    ELSE Ok(hp, hp[_floor(hp, rt, key)].key)

RECURSIVE _ceil(_, _, _)
_ceil(hp, node, key) ==
    IF node = None THEN None
    ELSE IF key = hp[node].key THEN node
    ELSE IF key < hp[node].key
         THEN IF _ceil(hp, hp[node].left, key) = None THEN None ELSE node
    ELSE _ceil(hp, hp[node].right, key)

ceil(hp, rt, key) ==
    IF key = None THEN Raise(hp, "ValueError")
    ELSE IF is_empty(rt) THEN Raise(hp, "IndexError")
    ELSE IF _ceil(hp, rt, key) = None THEN Raise(hp, "IndexError")
    ELSE Ok(hp, hp[_ceil(hp, rt, key)].key)

\* self._nodeSize: RedBlackBST defines no attribute of this name, so the
\* attribute lookup raises before the argument is used
_nodeSize(hp, node) == Raise(hp, "AttributeError")

RECURSIVE _select(_, _, _)
_select(hp, node, rank) ==
    IF node = None THEN Ok(hp, None)
    ELSE Then(_nodeSize(hp, hp[node].left), LAMBDA leftSize :
         IF leftSize.ret > rank THEN _select(hp, hp[node].left, rank)
         ELSE IF leftSize.ret < rank
              THEN _select(hp, hp[node].right, rank - leftSize.ret - 1)
         ELSE Ok(hp, hp[node].key))

\* select with a range check that lets rank = size() through
selectInclusive(hp, rt, rank) ==
    IF ~(0 <= rank /\ rank <= size(hp, rt)) THEN Raise(hp, "IndexError")
    ELSE _select(hp, rt, rank)

select(hp, rt, rank) ==
    IF ~(0 <= rank /\ rank < size(hp, rt)) THEN Raise(hp, "IndexError")
    ELSE _select(hp, rt, rank)

RECURSIVE _rank(_, _, _)
_rank(hp, node, key) ==
    IF node = None THEN Ok(hp, 0)
    ELSE IF key < hp[node].key THEN _rank(hp, hp[node].left, key)
    ELSE IF key > hp[node].key
         THEN Then(_nodeSize(hp, hp[node].left), LAMBDA leftSize :
              Then(_rank(hp, hp[node].right, key), LAMBDA r :
              Ok(hp, 1 + leftSize.ret + r.ret)))
    ELSE _nodeSize(hp, hp[node].left)

rank(hp, rt, key) ==
    IF key = None THEN Raise(hp, "ValueError")
    ELSE _rank(hp, rt, key)

\* _keys appends to the queue it is given; here it returns the queue
RECURSIVE _keys(_, _, _, _, _)
KeysRight(hp, node, queue, lo, hi) ==
    IF hi >= hp[node].key THEN _keys(hp, hp[node].right, queue, lo, hi) ELSE queue

KeysHere(hp, node, queue, lo, hi) ==
    KeysRight(hp, node,
              IF lo <= hp[node].key /\ hp[node].key <= hi
              THEN Append(queue, hp[node].key) ELSE queue,
              lo, hi)

_keys(hp, node, queue, lo, hi) ==
    IF node = None THEN queue
    ELSE IF lo > hp[node].key \/ hi < hp[node].key THEN queue
    ELSE KeysHere(hp, node,
                  IF lo < hp[node].key
                  THEN _keys(hp, hp[node].left, queue, lo, hi) ELSE queue,
                  lo, hi)

rangeKeys(hp, rt, lo, hi) ==
    IF lo = None THEN Raise(hp, "ValueError")
    ELSE IF hi = None THEN Raise(hp, "ValueError")
    ELSE Ok(hp, _keys(hp, rt, <<>>, lo, hi))

keys(hp, rt) ==
    IF is_empty(rt) THEN Ok(hp, <<>>)
    ELSE Then(minKey(hp, rt), LAMBDA lo :
         Then(maxKey(hp, rt), LAMBDA hi :
         rangeKeys(hp, rt, lo.ret, hi.ret)))

\* _height(node): -1 for None, else 1 + max of the heights of the children
RECURSIVE _height(_, _)
_height(hp, node) ==
    IF node = None THEN -1
    ELSE IF _height(hp, hp[node].left) >= _height(hp, hp[node].right)
         THEN 1 + _height(hp, hp[node].left)
    ELSE 1 + _height(hp, hp[node].right)

height(hp, rt) == Ok(hp, _height(hp, rt))

\* the nodes one level below the nodes of queue, left to right
RECURSIVE NextLevel(_, _)
NextLevel(hp, queue) ==
    IF queue = <<>> THEN <<>>
    ELSE (IF hp[Head(queue)].left # None THEN <<hp[Head(queue)].left>> ELSE <<>>)
         \o (IF hp[Head(queue)].right # None THEN <<hp[Head(queue)].right>> ELSE <<>>)
         \o NextLevel(hp, Tail(queue))

RECURSIVE Levels(_, _)
Levels(hp, queue) ==
    IF queue = <<>> THEN <<>>
    ELSE <<[i \in 1..Len(queue) |-> hp[queue[i]].key]>> \o Levels(hp, NextLevel(hp, queue))

\* level_order(): the queue starts as [self.root]; on the empty table the
\* first node taken from it is None and node.key raises AttributeError
level_order(hp, rt) ==
    IF rt = None THEN Raise(hp, "AttributeError")
    ELSE Ok(hp, Levels(hp, <<rt>>))

\* keySize(lo, hi): rank(hi) is evaluated before rank(lo)
keySize(hp, rt, lo, hi) ==
    IF lo = None THEN Raise(hp, "ValueError")
    ELSE IF hi = None THEN Raise(hp, "ValueError")
    ELSE IF lo > hi THEN Ok(hp, 0)
    ELSE Then(contains(hp, rt, hi), LAMBDA c :
         Then(rank(hp, rt, hi), LAMBDA a :
         Then(rank(hp, rt, lo), LAMBDA b :
         Ok(hp, IF c.ret THEN a.ret - b.ret + 1 ELSE a.ret - b.ret))))

(* ---- object identity ---- *)
\* The nodes reachable from a reference, in preorder.
RECURSIVE Reach(_, _)
Reach(hp, n) ==
    IF n = None THEN <<>>
    ELSE <<n>> \o Reach(hp, hp[n].left) \o Reach(hp, hp[n].right)

\* Node references are never shown to a caller and a node no reference
\* leads to is reclaimed: after a call the nodes reachable from self.root
\* are numbered in preorder and every other slot is free.
Collect(hp, rt) ==
    LET live   == Reach(hp, rt)
        ref(n) == IF n = None THEN None ELSE CHOOSE i \in 1..Len(live) : live[i] = n
    IN  [heap |-> [i \in DOMAIN hp |->
                     IF i <= Len(live)
                     THEN [hp[live[i]] EXCEPT !.left = ref(@), !.right = ref(@)]
                     ELSE FreeNode],
         root |-> ref(rt)]

(* ---- Heap (collection/heap.py) ---- *)
Items == 1..MaxItem

\* a Heap object: self.type, self.size, and self.heap from index 1 on
\* (index 0 of the list holds the dummy None, so self.size = len - 0 = n + 1)
NewHeap(type) == [type |-> type, heap |-> <<>>, size |-> 1]

_parent(i) == i \div 2

_left(i) == 2 * i

HeapEmpty(q) == q.size <= 1

\* _less(i, j, type): node i has lower priority than node j
_less(q, i, j) ==
    IF q.type = "min" THEN q.heap[i] > q.heap[j] ELSE q.heap[i] < q.heap[j]

_swap(q, i, j) == [q EXCEPT !.heap = [@ EXCEPT ![i] = q.heap[j], ![j] = q.heap[i]]]

peek(q) == IF HeapEmpty(q) THEN None ELSE q.heap[1]

\* the locals of the call that is running: where it is, index, l, top
Idle == [pc |-> "idle", index |-> 0, l |-> 0, top |-> None]

\* push(item) up to the first test of the loop of _shift_up(self.size - 1)
push(q, item) ==
    [pq |-> [q EXCEPT !.heap = Append(@, item), !.size = @ + 1],
     frame |-> [Idle EXCEPT !.pc = "shift_up", !.index = q.size]]

\* one test of 'while index != 1' in the iterative _shift_up and the body
\* that follows it.  When the parent does not have lower priority the body
\* assigns nothing and the loop tests again.
_shift_up(q, f) ==
    IF f.index = 1 THEN [pq |-> q, frame |-> Idle]
    ELSE IF _less(q, _parent(f.index), f.index)
         THEN [pq |-> _swap(q, f.index, _parent(f.index)),
               frame |-> [f EXCEPT !.index = _parent(f.index)]]
         ELSE [pq |-> q, frame |-> f]

\* pop() on a heap that is not empty, up to the first test of the loop of
\* _shift_down(1): top saved, _swap(1, -1), the last node removed
pop(q) ==
    [pq |-> [type |-> q.type,
             heap |-> SubSeq(_swap(q, 1, q.size - 1).heap, 1, q.size - 2),
             size |-> q.size - 1],
     frame |-> [pc |-> "shift_down", index |-> 1, l |-> _left(1), top |-> q.heap[1]]]

\* replace(item) on a heap that is not empty, up to the first test of the
\* loop of _shift_down(1): top saved, item appended, _swap(1, -1), the last
\* node removed
replace(q, item) ==
    [pq |-> [type |-> q.type,
             heap |-> SubSeq(_swap([q EXCEPT !.heap = Append(@, item)], 1, q.size).heap,
                             1, q.size - 1),
             size |-> q.size],
     frame |-> [pc |-> "shift_down", index |-> 1, l |-> _left(1), top |-> q.heap[1]]]

\* the child the iterative _shift_down compares with: l, or l + 1
Child(q, f) ==
    IF f.l < q.size - 1 /\ _less(q, f.l, f.l + 1) THEN f.l + 1 ELSE f.l

\* one test of 'while l < self.size' in the iterative _shift_down and the
\* body that follows it; l is assigned once, before the loop
_shift_down(q, f) ==
    IF ~(f.l < q.size) THEN [pq |-> q, frame |-> Idle]
    ELSE IF _less(q, f.index, Child(q, f))
         THEN [pq |-> _swap(q, f.index, Child(q, f)),
               frame |-> [f EXCEPT !.index = Child(q, f)]]
         ELSE [pq |-> q, frame |-> Idle]

\* the reference priority queue of the equivalence test (heapq on the list
\* theirs), by what it reports: the items held, smallest first
RECURSIVE heappush(_, _)
heappush(s, x) ==
    IF s = <<>> THEN <<x>>
    ELSE IF x <= Head(s) THEN <<x>> \o s
    ELSE <<Head(s)>> \o heappush(Tail(s), x)

heappop(s) == Tail(s)

heapreplace(s, x) == heappush(heappop(s), x)

(* ---- the state machine ---- *)
VARIABLES heap, root, err, last, ret, pq, frame, theirs
vars == <<heap, root, err, last, ret, pq, frame, theirs>>

\* no Heap in use
NoHeap == pq = NewHeap("min") /\ frame = Idle /\ theirs = <<>>

Init ==
    /\ heap = [n \in Refs |-> FreeNode]
    /\ root = None
    /\ err = NoErr
    /\ last = [op |-> "init", key |-> None, val |-> None]
    /\ ret = None
    /\ NoHeap

\* one public mutating call: the heap and root it leaves, the error it
\* raised, a record of the call, and what it returned (these methods return
\* None)
Call(op, key, val, r) ==
    /\ heap' = Collect(r.heap, r.root).heap
    /\ root' = Collect(r.heap, r.root).root
    /\ err' = r.err
    /\ last' = [op |-> op, key |-> key, val |-> val]
    /\ ret' = None
    /\ UNCHANGED <<pq, frame, theirs>>

\* the number of nodes of the table
Count(hp, rt) == Len(Reach(hp, rt))

\* a put that constructs a node is made only on a table of fewer than cap nodes
HasRoom(key, val, cap) ==
    (val # None /\ _get(heap, root, key).ret = None) => Count(heap, root) < cap

PutIn(cap) == \E key \in Keys, val \in Vals \cup {None} :
                  /\ HasRoom(key, val, cap)
                  /\ Call("put", key, val, put(heap, root, key, val))

Put == PutIn(MaxSize)

PutNoKey == \E val \in Vals \cup {None} :
                Call("put", None, val, put(heap, root, None, val))

Delete == \E key \in Keys \cup {None} :
              Call("delete", key, None, delete(heap, root, key))

DeleteMin == Call("deleteMin", None, None, deleteMin(heap, root))

DeleteMax == Call("deleteMax", None, None, deleteMax(heap, root))

Next == Put \/ PutNoKey \/ Delete \/ DeleteMin \/ DeleteMax

\* every public mutating method, on tables of up to MaxSize nodes
Spec == Init /\ [][Next]_vars

\* put alone (put(key, None) is delete(key)), on tables of up to MaxNodes nodes
PutDeep == PutIn(MaxNodes)

SpecPut == Init /\ [][PutDeep]_vars

(* ---- the invariant checkers ---- *)
\* is23(): its body is self.is23(self.root), a call of the method itself
\* with one argument more than it takes: TypeError
is23(hp, rt) == Raise(hp, "TypeError")

\* _is23(x): the two tests on x, then self.is23(x.left)
_is23(hp, rt, x) ==
    IF x = None THEN Ok(hp, TRUE)
    ELSE IF isRed(hp, hp[x].right) THEN Ok(hp, FALSE)
    ELSE IF x # rt /\ isRed(hp, x) /\ isRed(hp, hp[x].left) THEN Ok(hp, FALSE)
    ELSE Raise(hp, "TypeError")

\* the black nodes from x down the left spine
RECURSIVE LeftBlacks(_, _)
LeftBlacks(hp, x) ==
    IF x = None THEN 0
    ELSE (IF isRed(hp, x) THEN 0 ELSE 1) + LeftBlacks(hp, hp[x].left)

RECURSIVE _isBalanced(_, _, _)
_isBalanced(hp, x, black) ==
    IF x = None THEN black = 0
    ELSE /\ _isBalanced(hp, hp[x].left, IF isRed(hp, x) THEN black ELSE black - 1)
         /\ _isBalanced(hp, hp[x].right, IF isRed(hp, x) THEN black ELSE black - 1)

isBalanced(hp, rt) == Ok(hp, _isBalanced(hp, rt, LeftBlacks(hp, rt)))

(* ---- the queries as calls ---- *)
\* one public query: the nodes as it leaves them; it does not assign to
\* self.root; a and b are its arguments (None where it takes fewer)
Query(op, a, b, r) ==
    /\ heap' = r.heap
    /\ root' = root
    /\ err' = r.err
    /\ last' = [op |-> op, key |-> a, val |-> b]
    /\ ret' = r.ret
    /\ UNCHANGED <<pq, frame, theirs>>

CallGet == \E key \in Keys \cup {None} : Query("get", key, None, get(heap, root, key))

CallContains == \E key \in Keys \cup {None} :
                    Query("contains", key, None, contains(heap, root, key))

CallMinKey == Query("minKey", None, None, minKey(heap, root))

CallMaxKey == Query("maxKey", None, None, maxKey(heap, root))

CallFloor == \E key \in Keys \cup {None} : Query("floor", key, None, floor(heap, root, key))

CallCeil == \E key \in Keys \cup {None} : Query("ceil", key, None, ceil(heap, root, key))

CallSelect == \E k \in -1..MaxRank : Query("select", k, None, select(heap, root, k))

CallRank == \E key \in Keys \cup {None} : Query("rank", key, None, rank(heap, root, key))

CallRangeKeys == \E lo \in Keys, hi \in Keys :
                     Query("rangeKeys", lo, hi, rangeKeys(heap, root, lo, hi))

CallKeys == Query("keys", None, None, keys(heap, root))

CallIs23 == Query("is23", None, None, is23(heap, root))

CallIsBalanced == Query("isBalanced", None, None, isBalanced(heap, root))

CallHeight == Query("height", None, None, height(heap, root))

CallLevelOrder == Query("level_order", None, None, level_order(heap, root))

CallKeySize == \E lo \in Keys \cup {None}, hi \in Keys \cup {None} :
                   Query("keySize", lo, hi, keySize(heap, root, lo, hi))

PutSmall == PutIn(MaxQuery)

NextQuery ==
    \/ PutSmall \/ PutNoKey \/ Delete \/ DeleteMin \/ DeleteMax
    \/ CallGet \/ CallContains \/ CallMinKey \/ CallMaxKey \/ CallFloor
    \/ CallCeil \/ CallSelect \/ CallRank \/ CallRangeKeys \/ CallKeys
    \/ CallHeight \/ CallLevelOrder \/ CallKeySize \/ CallIs23 \/ CallIsBalanced

\* every public method of the symbol table, on tables of up to MaxQuery nodes
SpecQuery == Init /\ [][NextQuery]_vars

\* the mutating methods and keys(), on tables of up to MaxSize nodes
NextKeys == Next \/ CallKeys

SpecKeys == Init /\ [][NextKeys]_vars

\* the runs of Spec in which every call returns: no call raises
NextReturned == Next /\ err' = NoErr

SpecReturned == Init /\ [][NextReturned]_vars

(* ---- what a table holds ---- *)
\* the nodes of the subtree at n
RECURSIVE Nodes(_, _)
Nodes(hp, n) ==
    IF n = None THEN {} ELSE {n} \cup Nodes(hp, hp[n].left) \cup Nodes(hp, hp[n].right)

\* the keys of the subtree at n
SubKeys(hp, n) == {hp[m].key : m \in Nodes(hp, n)}

\* the key-value pairs a table holds
Pairs(hp, rt) == {<<hp[n].key, hp[n].val>> : n \in Nodes(hp, rt)}

\* what get(key), contains(key) and size() return, for a key that is not None
Get(hp, rt, key) == _get(hp, rt, key).ret
Contains(hp, rt, key) == Get(hp, rt, key) # None
Size(hp, rt) == _size(hp, rt)

\* the number of black links on each path from n down to a None link
RECURSIVE BlackCounts(_, _)
BlackCounts(hp, n) ==
    IF n = None THEN {0}
    ELSE {c + (IF isRed(hp, n) THEN 0 ELSE 1) :
            c \in BlackCounts(hp, hp[n].left) \cup BlackCounts(hp, hp[n].right)}

StrictBST(hp, rt) ==
    \A n \in Nodes(hp, rt) :
        /\ \A k \in SubKeys(hp, hp[n].left) : k < hp[n].key
        /\ \A k \in SubKeys(hp, hp[n].right) : k > hp[n].key

BlackBalanced(hp, rt) == Cardinality(BlackCounts(hp, rt)) = 1

LeftLeaning(hp, rt) ==
    \A n \in Nodes(hp, rt) :
        /\ ~isRed(hp, hp[n].right)
        /\ (n # rt /\ isRed(hp, n)) => ~isRed(hp, hp[n].left)

SizesConsistent(hp, rt) ==
    /\ \A n \in Nodes(hp, rt) :
          hp[n].size = 1 + _size(hp, hp[n].left) + _size(hp, hp[n].right)
    /\ Size(hp, rt) = Cardinality(Nodes(hp, rt))

Mutating == {"put", "delete", "deleteMin", "deleteMax"}

\* the smallest and the largest key of a set of keys
MinOf(S) == CHOOSE k \in S : \A j \in S : k <= j
MaxOf(S) == CHOOSE k \in S : \A j \in S : k >= j

(* ---- the claims ---- *)
\* In a step of the state machine heap and root are the table the call was
\* made on; heap', root', err' and last' are the table it left, the error it
\* raised and the call itself.

\* C1: after every public mutating call, in any sequence of such calls from
\* the empty table, the tree is in strict BST order: every key of a left
\* subtree is smaller and every key of a right subtree larger than the node's.
C1_BSTOrder == last.op \in Mutating => StrictBST(heap, root)

\* C2: after every public mutating call every path from the root to a None
\* link traverses the same number of black links.
C2_BlackBalance == last.op \in Mutating => BlackBalanced(heap, root)

\* C3: after every public mutating call no node has a red right link and no
\* red node other than the root has a red left link.
C3_LeftLeaning == last.op \in Mutating => LeftLeaning(heap, root)

\* C4: after every public mutating call every node's size field is
\* 1 + size(left) + size(right), so size() is the number of keys stored.
C4_Sizes == last.op \in Mutating => SizesConsistent(heap, root)

\* C5: after every public mutating call that leaves the table non-empty the
\* root is BLACK: the temporary red root of a delete is never left visible.
C5_RootBlack == (last.op \in Mutating /\ root # None) => ~isRed(heap, root)

\* C6: after put(k, v) with a non-null v, get(k) is v and get(k') is what it
\* was before the call for every other key k'.
C6_PutGet ==
    [][(last'.op = "put" /\ last'.key # None /\ last'.val # None) =>
        /\ err' = NoErr
        /\ Get(heap', root', last'.key) = last'.val
        /\ \A k \in Keys \ {last'.key} :
              Get(heap', root', k) = Get(heap, root, k)]_vars

\* C7: delete(k) of a key that is not in the table (the empty table
\* included) raises nothing and leaves the table as it was: the same
\* structure, keys, values and size.
C7_DeleteAbsent ==
    [][(last'.op = "delete" /\ last'.key # None
            /\ last'.key \notin SubKeys(heap, root)) =>
        /\ err' = NoErr
        /\ heap' = heap
        /\ root' = root]_vars

\* C8: delete(k) of a key in the table removes exactly that key: contains(k)
\* is false afterwards, size() is one less, and every other key is present
\* with the value it had.
C8_DeletePresent ==
    [][(last'.op = "delete" /\ last'.key \in SubKeys(heap, root)) =>
        /\ err' = NoErr
        /\ ~Contains(heap', root', last'.key)
        /\ Size(heap', root') = Size(heap, root) - 1
        /\ \A k \in Keys \ {last'.key} :
              Get(heap', root', k) = Get(heap, root, k)]_vars

\* C9: on a non-empty table deleteMax() raises nothing and removes exactly
\* the largest key, keeping every other key-value pair (so repeated calls
\* remove the keys in descending order until the table is empty).
C9_DeleteMax ==
    [][(last'.op = "deleteMax" /\ root # None) =>
        /\ err' = NoErr
        /\ Pairs(heap', root') =
              {p \in Pairs(heap, root) : p[1] # MaxOf(SubKeys(heap, root))}
        /\ Size(heap', root') = Size(heap, root) - 1]_vars

\* C10: on a non-empty table deleteMin() raises nothing and removes exactly
\* the smallest key, keeping every other key-value pair (so repeated calls
\* remove the keys in ascending order until the table is empty).
C10_DeleteMin ==
    [][(last'.op = "deleteMin" /\ root # None) =>
        /\ err' = NoErr
        /\ Pairs(heap', root') =
              {p \in Pairs(heap, root) : p[1] # MinOf(SubKeys(heap, root))}
        /\ Size(heap', root') = Size(heap, root) - 1]_vars

\* C11: whenever a public operation ends by raising an error, the tree is
\* exactly as it was before the call: the same structure, keys, values,
\* colors (the root's included) and size fields.
C11_ErrorAtomic == [][err' # NoErr => (heap' = heap /\ root' = root)]_vars

\* C12: put(k, v) with a non-null v increases size() by exactly 1 when k was
\* absent and leaves size() unchanged when k was present.
C12_PutSize ==
    [][(last'.op = "put" /\ last'.key # None /\ last'.val # None) =>
        /\ err' = NoErr
        /\ Size(heap', root') =
              Size(heap, root) + (IF Contains(heap, root, last'.key) THEN 0 ELSE 1)]_vars

\* C13: rank(select(i)) = i for every i in [0, size()), and
\* select(rank(k)) = k for every key k of the table.
C13_RankSelect ==
    /\ (last.op = "select" /\ 0 <= last.key /\ last.key < Size(heap, root)) =>
          /\ err = NoErr
          /\ rank(heap, root, ret) = Ok(heap, last.key)
    /\ (last.op = "rank" /\ last.key \in SubKeys(heap, root)) =>
          /\ err = NoErr
          /\ select(heap, root, ret) = Ok(heap, last.key)

\* C14: rank(key), for a key that is not None and is in the table or not,
\* returns the number of keys of the table that are strictly less than key.
C14_Rank ==
    (last.op = "rank" /\ last.key # None) =>
        /\ err = NoErr
        /\ ret = Cardinality({k \in SubKeys(heap, root) : k < last.key})

\* the keys of the table that floor(key) and ceil(key) choose from
AtMost(key) == {k \in SubKeys(heap, root) : k <= key}
AtLeast(key) == {k \in SubKeys(heap, root) : k >= key}

\* C15: on a non-empty table floor(key) returns the largest stored key <= key
\* and ceil(key) the smallest stored key >= key; an error is raised exactly
\* when the table has no such key.
C15_FloorCeil ==
    /\ (last.op = "floor" /\ last.key # None /\ root # None) =>
          IF AtMost(last.key) = {} THEN err = "IndexError"
          ELSE err = NoErr /\ ret = MaxOf(AtMost(last.key))
    /\ (last.op = "ceil" /\ last.key # None /\ root # None) =>
          IF AtLeast(last.key) = {} THEN err = "IndexError"
          ELSE err = NoErr /\ ret = MinOf(AtLeast(last.key))

\* the keys of a set in ascending order, each once
RECURSIVE Ascending(_)
Ascending(S) == IF S = {} THEN <<>> ELSE <<MinOf(S)>> \o Ascending(S \ {MinOf(S)})

\* C16: rangeKeys(lo, hi) returns exactly the stored keys k with
\* lo <= k <= hi, each once, in ascending order.
C16_RangeKeys ==
    last.op = "rangeKeys" =>
        /\ err = NoErr
        /\ ret = Ascending({k \in SubKeys(heap, root) : last.key <= k /\ k <= last.val})

\* C17: keys() returns all stored keys, each once, in ascending order, and
\* the empty sequence, without an error, when the table is empty.
C17_Keys ==
    last.op = "keys" =>
        /\ err = NoErr
        /\ ret = Ascending(SubKeys(heap, root))

\* C18: on an empty table minKey, maxKey, deleteMin, deleteMax, floor(k) and
\* ceil(k) each raise IndexError and leave the table empty.
C18_Underflow ==
    [][(/\ root = None
        /\ \/ last'.op \in {"minKey", "maxKey", "deleteMin", "deleteMax"}
           \/ last'.op \in {"floor", "ceil"} /\ last'.key # None) =>
        (err' = "IndexError" /\ root' = None /\ heap' = heap)]_vars

\* ceil(k) has been called on the empty table and has raised IndexError
C18_Witness ==
    root = None /\ last.op = "ceil" /\ last.key # None /\ err = "IndexError"

\* C19: get, put, delete, rank and contains called with a None key raise
\* ValueError before any node is read or modified: the table is unchanged,
\* whether it is empty or not.
C19_NoneKey ==
    [][(last'.key = None /\ last'.op \in {"get", "put", "delete", "rank", "contains"}) =>
        (err' = "ValueError" /\ heap' = heap /\ root' = root)]_vars

\* delete(None) has been called on a non-empty table and has raised ValueError
C19_Witness ==
    root # None /\ last.op = "delete" /\ last.key = None /\ err = "ValueError"

\* C20: select(k) with k outside [0, size()), a negative k and any k on the
\* empty table included, raises IndexError and does not modify the table.
C20_SelectRange ==
    [][(last'.op = "select" /\ ~(0 <= last'.key /\ last'.key < Size(heap, root))) =>
        (err' = "IndexError" /\ heap' = heap /\ root' = root)]_vars

\* select(size()) has been called on a non-empty table and has raised IndexError
C20_Witness ==
    /\ root # None
    /\ last.op = "select"
    /\ last.key = Size(heap, root)
    /\ err = "IndexError"

(* ---- tall tables ---- *)
\* A client that puts keys in descending order (each new key is smaller
\* than every key of the table) and deletes key 1, which it never put.
TallKeys == 2..(MaxTall + 1)

PutBelow == \E key \in TallKeys :
                /\ \A k \in SubKeys(heap, root) : key < k
                /\ Count(heap, root) < MaxTall
                /\ Call("put", key, 1, put(heap, root, key, 1))

DeleteLow == Call("delete", 1, None, delete(heap, root, 1))

NextTall == PutBelow \/ DeleteLow

InitTall ==
    /\ heap = [n \in 1..MaxTall |-> FreeNode]
    /\ root = None
    /\ err = NoErr
    /\ last = [op |-> "init", key |-> None, val |-> None]
    /\ ret = None
    /\ NoHeap

SpecTall == InitTall /\ [][NextTall]_vars

\* C21: after any sequence of put, delete, deleteMin and deleteMax that
\* leaves a non-empty table, height() <= 2 * log2(size() + 1), that is
\* 2^height() <= (size() + 1)^2.
C21_HeightBound ==
    (last.op \in Mutating /\ root # None) =>
        2 ^ height(heap, root).ret <= (Size(heap, root) + 1) * (Size(heap, root) + 1)

\* C22: put(k, None) with a key k that is not None has exactly the effect of
\* delete(k): it inserts no node, it removes k when k is present, and it
\* leaves the table unchanged, without an error, when k is absent.
C22_PutNone ==
    [][(last'.op = "put" /\ last'.key # None /\ last'.val = None) =>
        /\ err' = delete(heap, root, last'.key).err
        /\ heap' = Collect(delete(heap, root, last'.key).heap,
                           delete(heap, root, last'.key).root).heap
        /\ Count(heap', root') <= Count(heap, root)
        /\ IF last'.key \in SubKeys(heap, root)
           THEN err' = NoErr /\ ~Contains(heap', root', last'.key)
           ELSE err' = NoErr /\ heap' = heap /\ root' = root]_vars

\* a table that satisfies the invariants of a left-leaning red-black BST
LLRB(hp, rt) ==
    /\ StrictBST(hp, rt)
    /\ BlackBalanced(hp, rt)
    /\ LeftLeaning(hp, rt)
    /\ SizesConsistent(hp, rt)
    /\ ~isRed(hp, rt)

\* C24: in put, delete, deleteMin and deleteMax on a table that satisfies
\* the invariants, rotate_left is only called with h.right red and
\* rotate_right only with h.left red: their assertions never fail.
C24_RotateAsserts ==
    [][(last'.op \in Mutating /\ LLRB(heap, root)) => err' # "AssertionError"]_vars

(* ---- the helpers on their own ---- *)
\* The subtrees rotate_left, rotate_right and move_red_left are applied to:
\* every binary search tree with the keys 1..n, n <= MaxHelper, and every
\* coloring of its nodes.  A tree is <<>> or <<key, color, left, right>>.
RECURSIVE InputTrees(_, _)
InputTrees(lo, hi) ==
    IF lo > hi THEN {<<>>}
    ELSE UNION {{<<k, c, l, r>> : c \in BOOLEAN,
                                  l \in InputTrees(lo, k - 1),
                                  r \in InputTrees(k + 1, hi)} : k \in lo..hi}

\* the TreeNode objects of an input tree, linked, with their size fields
RECURSIVE Store(_, _)
RECURSIVE Link(_, _, _)
Link(hp, n, t) ==
    Then(Store(hp, t[3]), LAMBDA l :
    Then(Store(FieldSet(l.heap, n, "left", l.ret), t[4]), LAMBDA r :
    Ok(SizeUpdate(FieldSet(r.heap, n, "right", r.ret), n), n)))

Store(hp, t) ==
    IF Len(t) = 0 THEN Ok(hp, None)
    ELSE Link([hp EXCEPT ![NewRef(hp)] = TreeNode(t[1], 1, t[2], 1)], NewRef(hp), t)

\* root is the node h the helper is called with
InitHelpers ==
    \E n \in 1..MaxHelper : \E t \in InputTrees(1, n) :
        /\ heap = Store([i \in 1..MaxHelper |-> FreeNode], t).heap
        /\ root = Store([i \in 1..MaxHelper |-> FreeNode], t).ret
        /\ err = NoErr
        /\ last = [op |-> "init", key |-> None, val |-> None]
        /\ ret = None
        /\ NoHeap

\* one call of a helper with the node h = root: the nodes as the helper
\* leaves them, the node it returns, the error it raised
Applied(op, r) ==
    /\ heap' = r.heap
    /\ root' = root
    /\ err' = r.err
    /\ last' = [op |-> op, key |-> root, val |-> None]
    /\ ret' = r.ret
    /\ UNCHANGED <<pq, frame, theirs>>

Helper(op, r) == last.op = "init" /\ Applied(op, r)

ApplyRotateLeft == Helper("rotate_left", rotate_left(heap, root))

ApplyRotateRight == Helper("rotate_right", rotate_right(heap, root))

ApplyMoveRedLeft == Helper("move_red_left", move_red_left(heap, root))

NextHelpers == ApplyRotateLeft \/ ApplyRotateRight \/ ApplyMoveRedLeft

SpecHelpers == InitHelpers /\ [][NextHelpers]_vars

\* the key-value pairs of the subtree at n, in order
RECURSIVE InOrder(_, _)
InOrder(hp, n) ==
    IF n = None THEN <<>>
    ELSE InOrder(hp, hp[n].left) \o <<<<hp[n].key, hp[n].val>>>> \o InOrder(hp, hp[n].right)

NodeSizeOk(hp, n) == hp[n].size = 1 + _size(hp, hp[n].left) + _size(hp, hp[n].right)

\* what a rotation of the subtree at root that brings x up has to leave
Rotated(x) ==
    /\ err' = NoErr
    /\ ret' = x
    /\ InOrder(heap', x) = InOrder(heap, root)
    /\ heap'[x].size = heap[root].size
    /\ NodeSizeOk(heap', x)
    /\ NodeSizeOk(heap', root)
    /\ heap'[x].color = heap[root].color
    /\ heap'[root].color = RED
    /\ \A n \in DOMAIN heap \ {root, x} : heap'[n] = heap[n]

\* C25: rotate_left(h) with h.right red and rotate_right(h) with h.left red,
\* on a subtree with consistent size fields, return a subtree with the same
\* in-order key-value pairs, the old root's size and color at the new root,
\* consistent sizes on both rotated nodes and a red old root; no other node
\* is modified.
C25_Rotate ==
    [][/\ (/\ last'.op = "rotate_left"
           /\ isRed(heap, heap[root].right)
           /\ SizesConsistent(heap, root)) => Rotated(heap[root].right)
       /\ (/\ last'.op = "rotate_right"
           /\ isRed(heap, heap[root].left)
           /\ SizesConsistent(heap, root)) => Rotated(heap[root].left)]_vars

\* rotate_left has returned the old right child, which took over a left
\* subtree of its own as the old root's right subtree
C25_Witness ==
    /\ last.op = "rotate_left"
    /\ err = NoErr
    /\ heap[ret].left = root
    /\ heap[root].right # None
    /\ heap[root].left # None

\* the subtree at root as move_red_left expects it
RedLeftInput ==
    /\ isRed(heap, root)
    /\ heap[root].left # None
    /\ ~isRed(heap, heap[root].left)
    /\ ~isRed(heap, heap[heap[root].left].left)
    /\ heap[root].right # None
    /\ BlackBalanced(heap, root)

\* the subtree move_red_left has to return
RedLeftOutput ==
    /\ err' = NoErr
    /\ ret' # None
    /\ heap'[ret'].left # None
    /\ \/ isRed(heap', heap'[ret'].left)
       \/ isRed(heap', heap'[heap'[ret'].left].left)
       \/ isRed(heap', heap'[heap'[ret'].left].right)
    /\ InOrder(heap', ret') = InOrder(heap, root)
    /\ BlackBalanced(heap', ret')

(* ---- move_red_left where the table calls it ---- *)
\* A call move_red_left(h) is a record of the nodes at the time of the call
\* and of h.
\* the calls of move_red_left (line 212) that _deleteMin(h) makes, its
\* recursive calls included
RECURSIVE SitesDeleteMin(_, _)
SitesDeleteMin(hp, h) ==
    IF h = None THEN {}
    ELSE IF hp[h].left = None THEN {}
    ELSE IF ~isRed(hp, hp[h].left) /\ ~isRed(hp, hp[hp[h].left].left)
    THEN LET s1 == move_red_left(hp, h)
         IN  {[heap |-> hp, h |-> h]}
             \cup (IF s1.err # NoErr THEN {}
                   ELSE SitesDeleteMin(s1.heap, s1.heap[s1.ret].left))
    ELSE SitesDeleteMin(hp, hp[h].left)

\* the calls of move_red_left (lines 169 and 212) that _delete(h, key)
\* makes, its recursive calls and its call of _deleteMin included
RECURSIVE SitesDelete(_, _, _)
SitesDelete(hp, h, key) ==
    IF h = None THEN {}
    ELSE IF key < hp[h].key
    THEN IF hp[h].left = None THEN {}
         ELSE IF ~isRed(hp, hp[h].left) /\ ~isRed(hp, hp[hp[h].left].left)
         THEN LET s1 == move_red_left(hp, h)
              IN  {[heap |-> hp, h |-> h]}
                  \cup (IF s1.err # NoErr THEN {}
                        ELSE SitesDelete(s1.heap, s1.heap[s1.ret].left, key))
         ELSE SitesDelete(hp, hp[h].left, key)
    ELSE LET s1 == IF isRed(hp, hp[h].left) THEN rotate_right(hp, h) ELSE Ok(hp, h)
         IN  IF s1.heap[s1.ret].right = None THEN {}
             ELSE LET s2 == IF ~isRed(s1.heap, s1.heap[s1.ret].right)
                               /\ ~isRed(s1.heap, s1.heap[s1.heap[s1.ret].right].left)
                            THEN move_red_right(s1.heap, s1.ret)
                            ELSE Ok(s1.heap, s1.ret)
                  IN  IF s2.err # NoErr THEN {}
                      ELSE IF key = s2.heap[s2.ret].key
                      THEN LET m == _minKey(s2.heap, s2.heap[s2.ret].right).ret
                           IN  SitesDeleteMin(
                                 FieldCopy(FieldCopy(s2.heap, s2.ret, "key", m, "key"),
                                           s2.ret, "val", m, "val"),
                                 s2.heap[s2.ret].right)
                      ELSE SitesDelete(s2.heap, s2.heap[s2.ret].right, key)

\* a table is being built: no call of move_red_left has been singled out
Building == last.op \in Mutating \cup {"init"}

\* the tables of this specification: the keys 1, 2, ... put in ascending
\* order, and then keys deleted
PutAbove == /\ last.op \in {"init", "put"}
            /\ Count(heap, root) < MaxTall - 1
            /\ Call("put", Count(heap, root) + 1, 1,
                    put(heap, root, Count(heap, root) + 1, 1))

DeleteSite == \E key \in 1..MaxTall :
                  Building /\ Call("delete", key, None, delete(heap, root, key))

DeleteMinSite == Building /\ Call("deleteMin", None, None, deleteMin(heap, root))

\* the state at a call of move_red_left: root is the node h it is called with
Entered(c, key) ==
    /\ Building
    /\ heap' = c.heap
    /\ root' = c.h
    /\ err' = NoErr
    /\ last' = [op |-> "call", key |-> key, val |-> None]
    /\ ret' = None
    /\ UNCHANGED <<pq, frame, theirs>>

EnterDeleteMin ==
    /\ root # None
    /\ \E c \in SitesDeleteMin(RootRed(heap, root), root) : Entered(c, None)

EnterDelete == \E key \in 1..MaxTall :
    /\ root # None
    /\ \E c \in SitesDelete(RootRed(heap, root), root, key) : Entered(c, key)

ReturnMoveRedLeft ==
    /\ last.op = "call"
    /\ Applied("move_red_left", move_red_left(heap, root))

NextSites ==
    \/ PutAbove \/ DeleteSite \/ DeleteMinSite
    \/ EnterDeleteMin \/ EnterDelete \/ ReturnMoveRedLeft

SpecSites == InitTall /\ [][NextSites]_vars

\* C26: whenever move_red_left(h) is called with h red, h.left and
\* h.left.left black and h.right present, it returns a subtree with a red
\* link on its left child or one of that child's children, the same in-order
\* keys, and equal black counts on all root-to-None paths when the input had
\* them.
C26_MoveRedLeft ==
    [][(last'.op = "move_red_left" /\ RedLeftInput) => RedLeftOutput]_vars

Queries == {"get", "contains", "minKey", "maxKey", "floor", "ceil", "rank", "select",
            "keys", "rangeKeys", "keySize", "height", "level_order"}

\* C27: get, contains, minKey, maxKey, floor, ceil, rank, select, keys,
\* rangeKeys, keySize, height and level_order leave the root and every node
\* (links, keys, values, colors, sizes) as they were, whether they return or
\* raise.
C27_ReadOnly ==
    [][last'.op \in Queries => heap' = heap /\ root' = root]_vars

\* a query has raised on a table that holds keys
C27_Witness ==
    /\ last.op \in Queries
    /\ err # NoErr
    /\ root # None
    /\ Size(heap, root) >= 2

\* no red right link, and no red node other than the root with a red left child
Is23Tree(hp, rt) == LeftLeaning(hp, rt)

\* C28: is23() returns a boolean on every tree, true exactly when the tree
\* has no red right link and no two consecutive red left links; isBalanced()
\* returns true exactly when all root-to-None paths have the same number of
\* black links.
C28_Checkers ==
    /\ last.op = "is23" => (err = NoErr /\ ret = Is23Tree(heap, root))
    /\ last.op = "isBalanced" => (err = NoErr /\ ret = BlackBalanced(heap, root))

(* ---- Heap: the calls, one loop test per step ---- *)
InitHeap ==
    /\ heap = [n \in Refs |-> FreeNode]
    /\ root = None
    /\ err = NoErr
    /\ last = [op |-> "init", key |-> None, val |-> None]
    /\ ret = None
    /\ \E type \in {"min", "max"} : pq = NewHeap(type)
    /\ frame = Idle
    /\ theirs = <<>>

\* a step of a Heap call: the heap and the locals it leaves, what is recorded
\* of the call, and what has been returned
HeapStep(r, call, value, ref) ==
    /\ pq' = r.pq
    /\ frame' = r.frame
    /\ last' = call
    /\ ret' = value
    /\ theirs' = ref
    /\ UNCHANGED <<heap, root, err>>

Push == \E item \in Items :
            /\ frame.pc = "idle"
            /\ Len(pq.heap) < MaxHeap
            /\ HeapStep(push(pq, item), [op |-> "push", key |-> item, val |-> None],
                        None, theirs)

\* the equivalence test pushes to theirs when ours.push has returned
ShiftUpStep ==
    /\ frame.pc = "shift_up"
    /\ HeapStep(_shift_up(pq, frame), last, None,
                IF _shift_up(pq, frame).frame.pc = "idle" /\ pq.type = "min"
                THEN heappush(theirs, last.key) ELSE theirs)

Pop ==
    /\ frame.pc = "idle"
    /\ IF HeapEmpty(pq)
       THEN HeapStep([pq |-> pq, frame |-> Idle],
                     [op |-> "pop", key |-> None, val |-> None], None, theirs)
       ELSE HeapStep(pop(pq), [op |-> "pop", key |-> None, val |-> None], None, theirs)

Replace == \E item \in Items :
    /\ frame.pc = "idle"
    /\ IF HeapEmpty(pq)
       THEN HeapStep([pq |-> pq, frame |-> Idle],
                     [op |-> "replace", key |-> item, val |-> None], None, theirs)
       ELSE HeapStep(replace(pq, item),
                     [op |-> "replace", key |-> item, val |-> None], None, theirs)

\* pop and replace return top when _shift_down has returned; the reference
\* then does the same call
ShiftDownStep ==
    /\ frame.pc = "shift_down"
    /\ IF _shift_down(pq, frame).frame.pc = "idle"
       THEN HeapStep(_shift_down(pq, frame), last, frame.top,
                     IF pq.type # "min" THEN theirs
                     ELSE IF last.op = "replace" THEN heapreplace(theirs, last.key)
                     ELSE heappop(theirs))
       ELSE HeapStep(_shift_down(pq, frame), last, None, theirs)

Peek ==
    /\ frame.pc = "idle"
    /\ HeapStep([pq |-> pq, frame |-> Idle],
                [op |-> "peek", key |-> None, val |-> None], peek(pq), theirs)

NextHeap == Push \/ ShiftUpStep \/ Pop \/ ShiftDownStep \/ Peek \/ Replace

\* every public method of the Heap
SpecHeap == InitHeap /\ [][NextHeap]_vars

\* a loop that is running makes its next test
SpecHeapLive == SpecHeap /\ WF_vars(ShiftUpStep) /\ WF_vars(ShiftDownStep)

\* the sequences of push, pop and peek calls
NextPushPop == Push \/ ShiftUpStep \/ Pop \/ ShiftDownStep \/ Peek

SpecPushPop ==
    InitHeap /\ [][NextPushPop]_vars /\ WF_vars(ShiftUpStep) /\ WF_vars(ShiftDownStep)

\* C29: every push(item) returns: the loop of _shift_up ends, also when the
\* pushed item does not have to move up.
C29_PushReturns == (frame.pc = "shift_up") ~> (frame.pc = "idle")

\* the items of a list, smallest first
RECURSIVE SortedItems(_)
SortedItems(s) == IF s = <<>> THEN <<>> ELSE heappush(SortedItems(Tail(s)), Head(s))

\* between calls a min-heap holds the items of the reference queue and
\* peek() is the reference's item at index 0; a pop that has returned has
\* returned an item no larger than any item still held
OursIsTheirs ==
    (frame.pc = "idle" /\ pq.type = "min") =>
        /\ pq.size - 1 = Len(theirs)
        /\ SortedItems(pq.heap) = theirs
        /\ peek(pq) = (IF theirs = <<>> THEN None ELSE theirs[1])
        /\ (last.op = "pop" /\ ret # None) => \A i \in 1..Len(theirs) : ret <= theirs[i]

\* C23: Heap('min'): after any sequence of push and pop calls peek() is the
\* smallest item held, the item a reference priority queue reports at index
\* 0, and pop() returns that item.
C23_MinFirst ==
    /\ []OursIsTheirs
    /\ (pq.type = "min" /\ frame.pc = "shift_down") ~> (frame.pc = "idle")

(* ---- BST (searching/BST.py): unbalanced, Hibbard deletion ---- *)
\* a heap slot that holds no node, and TreeNode(key, val, size)
BSTFree == [key |-> None, val |-> None, left |-> None, right |-> None, count |-> 0]

BSTNode(key, val, count) ==
    [key |-> key, val |-> val, left |-> None, right |-> None, count |-> count]

BST__size(hp, node) == IF node = None THEN 0 ELSE hp[node].count

BST_size(hp, rt) == BST__size(hp, rt)

BST_is_empty(hp, rt) == BST_size(hp, rt) = 0

\* node.count = 1 + self._size(node.left) + self._size(node.right)
CountUpdate(hp, node) ==
    [hp EXCEPT ![node].count =
        1 + BST__size(hp, hp[node].left) + BST__size(hp, hp[node].right)]

RECURSIVE BST__insert(_, _, _, _)
BST__insert(hp, node, key, val) ==
    IF node = None
    THEN Ok([hp EXCEPT ![NewRef(hp)] = BSTNode(key, val, 1)], NewRef(hp))
    ELSE IF key < hp[node].key
    THEN Then(BST__insert(hp, hp[node].left, key, val), LAMBDA r :
           Ok(CountUpdate(FieldSet(r.heap, node, "left", r.ret), node), node))
    ELSE IF key > hp[node].key
    THEN Then(BST__insert(hp, hp[node].right, key, val), LAMBDA r :
           Ok(CountUpdate(FieldSet(r.heap, node, "right", r.ret), node), node))
    ELSE Ok(CountUpdate(FieldSet(hp, node, "val", val), node), node)

RECURSIVE BST__minKey(_, _)
BST__minKey(hp, node) ==
    IF hp[node].left = None THEN node ELSE BST__minKey(hp, hp[node].left)

RECURSIVE BST__maxKey(_, _)
BST__maxKey(hp, node) ==
    IF hp[node].right = None THEN node ELSE BST__maxKey(hp, hp[node].right)

\* _deleteMin without the update of node.count
RECURSIVE BST__deleteMinStale(_, _)
BST__deleteMinStale(hp, node) ==
    IF hp[node].left = None THEN Ok(hp, hp[node].right)
    ELSE Then(BST__deleteMinStale(hp, hp[node].left), LAMBDA r :
           Ok(FieldSet(r.heap, node, "left", r.ret), node))

RECURSIVE BST__deleteMin(_, _)
BST__deleteMin(hp, node) ==
    IF hp[node].left = None THEN Ok(hp, hp[node].right)
    ELSE Then(BST__deleteMin(hp, hp[node].left), LAMBDA r :
           Ok(CountUpdate(FieldSet(r.heap, node, "left", r.ret), node), node))

RECURSIVE BST__deleteMax(_, _)
BST__deleteMax(hp, node) ==
    IF hp[node].right = None THEN Ok(hp, hp[node].left)
    ELSE Then(BST__deleteMax(hp, hp[node].right), LAMBDA r :
           Ok(CountUpdate(FieldSet(r.heap, node, "right", r.ret), node), node))

\* the node with two children: its successor takes its place
Hibbard(hp, tmp) ==
    Then(BST__deleteMin(hp, hp[tmp].right), LAMBDA r :
      Ok(CountUpdate(
           FieldSet(FieldSet(r.heap, BST__minKey(hp, hp[tmp].right), "right", r.ret),
                    BST__minKey(hp, hp[tmp].right), "left", hp[tmp].left),
           BST__minKey(hp, hp[tmp].right)),
         BST__minKey(hp, hp[tmp].right)))

RECURSIVE BST__delete(_, _, _)
BST__delete(hp, node, key) ==
    IF node = None THEN Ok(hp, None)
    ELSE IF key < hp[node].key
    THEN Then(BST__delete(hp, hp[node].left, key), LAMBDA r :
           Ok(CountUpdate(FieldSet(r.heap, node, "left", r.ret), node), node))
    ELSE IF key > hp[node].key
    THEN Then(BST__delete(hp, hp[node].right, key), LAMBDA r :
           Ok(CountUpdate(FieldSet(r.heap, node, "right", r.ret), node), node))
    ELSE IF hp[node].left = None \/ hp[node].right = None
    THEN Ok(hp, IF hp[node].right # None THEN hp[node].right ELSE hp[node].left)
    ELSE Hibbard(hp, node)

(* ---- BST: the invariant checker ---- *)
\* min and max are None where there is no constraint
RECURSIVE BST__isBST(_, _, _, _)
BST__isBST(hp, node, min, max) ==
    IF node = None THEN TRUE
    ELSE IF min # None /\ hp[node].key <= min THEN FALSE
    ELSE IF max # None /\ hp[node].key >= max THEN FALSE
    ELSE /\ BST__isBST(hp, hp[node].left, min, hp[node].key)
         /\ BST__isBST(hp, hp[node].right, hp[node].key, max)

BST_isBST(hp, rt) == BST__isBST(hp, rt, None, None)

RECURSIVE BST__countCheck(_, _)
BST__countCheck(hp, node) ==
    IF node = None THEN TRUE
    ELSE IF hp[node].count # 1 + BST__size(hp, hp[node].left) + BST__size(hp, hp[node].right)
    THEN FALSE
    ELSE BST__countCheck(hp, hp[node].left) /\ BST__countCheck(hp, hp[node].right)

BST_countCheck(hp, rt) == BST__countCheck(hp, rt)

RECURSIVE BST__select(_, _, _)
BST__select(hp, node, k) ==
    IF node = None THEN None
    ELSE IF BST__size(hp, hp[node].left) > k THEN BST__select(hp, hp[node].left, k)
    ELSE IF BST__size(hp, hp[node].left) < k
    THEN BST__select(hp, hp[node].right, k - BST__size(hp, hp[node].left) - 1)
    ELSE hp[node].key

BST_select(hp, rt, k) ==
    IF ~(0 <= k /\ k < BST_size(hp, rt)) THEN Raise(hp, "IndexError")
    ELSE Ok(hp, BST__select(hp, rt, k))

RECURSIVE BST__rank(_, _, _)
BST__rank(hp, node, key) ==
    IF node = None THEN 0
    ELSE IF key < hp[node].key THEN BST__rank(hp, hp[node].left, key)
    ELSE IF key > hp[node].key
    THEN 1 + BST__size(hp, hp[node].left) + BST__rank(hp, hp[node].right, key)
    ELSE BST__size(hp, hp[node].left)

BST_rank(hp, rt, key) ==
    IF key = None THEN Raise(hp, "ValueError") ELSE Ok(hp, BST__rank(hp, rt, key))

\* _keys appends to the queue it is given; here it returns the queue
RECURSIVE BST__keys(_, _, _, _, _)
BST__keys(hp, node, queue, lo, hi) ==
    IF node = None THEN queue
    ELSE IF lo > hp[node].key \/ hi < hp[node].key THEN queue
    ELSE LET q1 == IF lo < hp[node].key
                   THEN BST__keys(hp, hp[node].left, queue, lo, hi) ELSE queue
             q2 == IF lo <= hp[node].key /\ hp[node].key <= hi
                   THEN Append(q1, hp[node].key) ELSE q1
         IN  IF hi >= hp[node].key THEN BST__keys(hp, hp[node].right, q2, lo, hi) ELSE q2

BST_keys(hp, rt) ==
    IF BST_is_empty(hp, rt) THEN <<>>
    ELSE BST__keys(hp, rt, <<>>, hp[BST__minKey(hp, rt)].key, hp[BST__maxKey(hp, rt)].key)

\* the second loop of rankCheck, from the i-th key of keys() on
RECURSIVE KeyLoop(_, _, _, _)
KeyLoop(hp, rt, ks, i) ==
    IF i > Len(ks) THEN Ok(hp, TRUE)
    ELSE Then(BST_rank(hp, rt, ks[i]), LAMBDA r :
         Then(BST_select(hp, rt, r.ret), LAMBDA k :
         IF ks[i] # k.ret THEN Ok(hp, FALSE) ELSE KeyLoop(hp, rt, ks, i + 1)))

\* the first loop of rankCheck, from i on, and then the second
RECURSIVE RankLoop(_, _, _)
RankLoop(hp, rt, i) ==
    IF i >= BST_size(hp, rt) THEN KeyLoop(hp, rt, BST_keys(hp, rt), 1)
    ELSE Then(BST_select(hp, rt, i), LAMBDA k :
         Then(BST_rank(hp, rt, k.ret), LAMBDA r :
         IF i # r.ret THEN Ok(hp, FALSE) ELSE RankLoop(hp, rt, i + 1)))

BST_rankCheck(hp, rt) == RankLoop(hp, rt, 0)

\* check(): the three tests are all made (for the messages) before the
\* conjunction is returned
BST_check(hp, rt) ==
    Then(BST_rankCheck(hp, rt), LAMBDA r :
      Ok(hp, BST_isBST(hp, rt) /\ BST_countCheck(hp, rt) /\ r.ret))

(* ---- BST: the public mutating methods ---- *)
\* assert c, for the result c of self.check()
Asserted(r, c) ==
    IF c.err # NoErr THEN Raised(r.heap, r.ret, c.err)
    ELSE IF c.ret THEN Returned(r.heap, r.ret)
    ELSE Raised(r.heap, r.ret, "AssertionError")

\* self.root = <the node returned>; assert self.check()
Checked(r) == Asserted(r, BST_check(r.heap, r.ret))

BST_delete(hp, rt, key) ==
    IF key = None THEN Raised(hp, rt, "ValueError")
    ELSE Checked(BST__delete(hp, rt, key))

BST_insert(hp, rt, key, val) ==
    IF key = None THEN Raised(hp, rt, "ValueError")
    ELSE IF val = None THEN BST_delete(hp, rt, key)
    ELSE Checked(BST__insert(hp, rt, key, val))

BST_deleteMin(hp, rt) ==
    IF BST_is_empty(hp, rt) THEN Raised(hp, rt, "IndexError")
    ELSE Checked(BST__deleteMin(hp, rt))

BST_deleteMax(hp, rt) ==
    IF BST_is_empty(hp, rt) THEN Raised(hp, rt, "IndexError")
    ELSE Checked(BST__deleteMax(hp, rt))

(* ---- BST: the state machine ---- *)
\* as Collect, for the nodes of a BST
CollectBST(hp, rt) ==
    LET live   == Reach(hp, rt)
        ref(n) == IF n = None THEN None ELSE CHOOSE i \in 1..Len(live) : live[i] = n
    IN  [heap |-> [i \in DOMAIN hp |->
                     IF i <= Len(live)
                     THEN [hp[live[i]] EXCEPT !.left = ref(@), !.right = ref(@)]
                     ELSE BSTFree],
         root |-> ref(rt)]

InitBST ==
    /\ heap = [n \in Refs |-> BSTFree]
    /\ root = None
    /\ err = NoErr
    /\ last = [op |-> "init", key |-> None, val |-> None]
    /\ ret = None
    /\ NoHeap

Landed(op, key, val, r, c) ==
    /\ heap' = c.heap
    /\ root' = c.root
    /\ err' = r.err
    /\ last' = [op |-> op, key |-> key, val |-> val]
    /\ ret' = None
    /\ UNCHANGED <<pq, frame, theirs>>

\* one public mutating call of a BST, as Call
CallBST(op, key, val, r) == Landed(op, key, val, r, CollectBST(r.heap, r.root))

Insert == \E key \in Keys \cup {None}, val \in Vals \cup {None} :
              CallBST("insert", key, val, BST_insert(heap, root, key, val))

DeleteBST == \E key \in Keys \cup {None} :
                 CallBST("delete", key, None, BST_delete(heap, root, key))

DeleteMinBST == CallBST("deleteMin", None, None, BST_deleteMin(heap, root))

DeleteMaxBST == CallBST("deleteMax", None, None, BST_deleteMax(heap, root))

NextBST == Insert \/ DeleteBST \/ DeleteMinBST \/ DeleteMaxBST

SpecBST == InitBST /\ [][NextBST]_vars

\* every node's count is 1 + count(left) + count(right)
CountsConsistent(hp, rt) ==
    \A n \in Nodes(hp, rt) :
        hp[n].count = 1 + BST__size(hp, hp[n].left) + BST__size(hp, hp[n].right)

\* rank(select(i)) = i for every valid i, select(rank(key)) = key for every
\* key held, and select(i) is the key with i smaller keys
RanksConsistent(hp, rt) ==
    /\ \A i \in 0..(BST_size(hp, rt) - 1) :
          /\ BST_select(hp, rt, i).ret \in SubKeys(hp, rt)
          /\ Cardinality({k \in SubKeys(hp, rt) : k < BST_select(hp, rt, i).ret}) = i
          /\ BST_rank(hp, rt, BST_select(hp, rt, i).ret).ret = i
    /\ \A key \in SubKeys(hp, rt) :
          /\ BST_select(hp, rt, BST_rank(hp, rt, key).ret).err = NoErr
          /\ BST_select(hp, rt, BST_rank(hp, rt, key).ret).ret = key

\* C30: BST: 'assert self.check()' at the end of insert, delete, deleteMin
\* and deleteMax never fails: after each of them the tree is in strict BST
\* order, every count is 1 + count(left) + count(right), and rank and select
\* are inverse to each other.
C30_CheckHolds ==
    last.op \in {"insert", "delete", "deleteMin", "deleteMax"} =>
        /\ err \in {NoErr, "ValueError", "IndexError"}
        /\ err = "ValueError" => last.key = None
        /\ err = "IndexError" => root = None
        /\ StrictBST(heap, root)
        /\ CountsConsistent(heap, root)
        /\ BST_size(heap, root) = Cardinality(Nodes(heap, root))
        /\ RanksConsistent(heap, root)

\* a delete has returned with its check passed and has left a successor
\* with two children at the root, above a left subtree of two levels
C30_Witness ==
    /\ last.op = "delete"
    /\ err = NoErr
    /\ root # None
    /\ last.key < heap[root].key
    /\ heap[root].left # None
    /\ heap[root].right # None
    /\ \A k \in SubKeys(heap, heap[root].left) : k < last.key
    /\ BST_size(heap, root) = MaxNodes - 1

====
